---- MODULE Spec2Model ----
(***************************************************************************)
(* Model of src/searching/binary_search.rs: SortedArray<T, O> and          *)
(* binary_search, which returns every index at which an item occurs.       *)
(* Indices are 0-based as in the source; TLA+ sequences are 1-based, so    *)
(* the element at index i of a slice a is a[i + 1] (operator At).          *)
(***************************************************************************)
EXTENDS Integers, Sequences, FiniteSets, TLC

\* ------------------------------------------------------------------ bounds
\* longest input Vec
MaxLen == 4

\* number of distinct element values
MaxVal == 2

\* the element values leave gaps between them
Values == {2 * k : k \in 1..MaxVal}

\* items below, equal to, in the gaps of, and above the element values
Queries == 1..(2 * MaxVal + 1)

Inputs == UNION {[1..n -> Values] : n \in 0..MaxLen}

Orders == {"Ascending", "Descending"}

\* ------------------------------------------------------------ pure helpers
\* T::cmp for the integer element type
Cmp(a, b) == IF a < b THEN "Less" ELSE IF a > b THEN "Greater" ELSE "Equal"

\* impl OrdOrder for Ascending
AscendingCmp(a, b) == Cmp(a, b)

\* impl OrdOrder for Descending
DescendingCmp(a, b) == Cmp(b, a)

\* variant: every order marker compares in the natural order
OrdCmpNatural(O, a, b) == Cmp(a, b)

\* O::cmp, dispatched on the order marker
OrdCmp(O, a, b) == IF O = "Ascending" THEN AscendingCmp(a, b) ELSE DescendingCmp(a, b)

\* slice indexing with a 0-based index
At(a, i) == a[i + 1]

\* slice indexing is bounds-checked
InBounds(a, i) == 0 <= i /\ i < Len(a)

\* the comparator handed to the sort: a.cmp(b) for sort(), b.cmp(a) for the
\* closure of sort_by
Compare(reversed, a, b) == IF reversed THEN Cmp(b, a) ELSE Cmp(a, b)

\* stable insertion of x into t, which is sorted under the comparator
Insert(reversed, x, t) ==
    LET p == Cardinality({j \in 1..Len(t) : Compare(reversed, t[j], x) # "Greater"})
    IN  SubSeq(t, 1, p) \o <<x>> \o SubSeq(t, p + 1, Len(t))

\* Vec::sort / Vec::sort_by: a stable sort under the comparator
SortBy(reversed, s) ==
    LET ins[k \in 0..Len(s)] ==
            IF k = 0 THEN <<>> ELSE Insert(reversed, s[k], ins[k - 1])
    IN  ins[Len(s)]

\* data.sort()
Sort(s) == SortBy(FALSE, s)

\* variant: the closure compares a with b instead of b with a
SortRevNatural(s) == SortBy(FALSE, s)

\* data.sort_by(|a, b| b.cmp(a))
SortRev(s) == SortBy(TRUE, s)

\* variant: the midpoint rounds up
MidCeil(l, r) == l + (r - l + 1) \div 2

\* let mid = left + (right - left) / 2
Mid(l, r) == l + (r - l) \div 2

\* variant: the half-open range first..last
RangeExclusive(lo, hi) == IF hi <= lo THEN <<>> ELSE [i \in 1..(hi - lo) |-> lo + i - 1]

\* (first..=last).collect()
RangeInclusive(lo, hi) == IF hi < lo THEN <<>> ELSE [i \in 1..(hi - lo + 1) |-> lo + i - 1]

\* variant: the Greater arm keeps mid in the range (left = mid)
ProbeNarrowNoAdvance(ord, l, r, m) ==
    IF ord = "Less" THEN [left |-> l, right |-> m] ELSE [left |-> m, right |-> r]

\* the Less / Greater arms of the probe loop's match
ProbeNarrow(ord, l, r, m) ==
    IF ord = "Less" THEN [left |-> l, right |-> m] ELSE [left |-> m + 1, right |-> r]

\* variant: the two Equal arms are swapped
BoundaryNarrowSwapped(ord, find_first, l, r, m, b) ==
    CASE ord = "Equal" /\ find_first  -> [left |-> m + 1, right |-> r, boundary |-> m]
      [] ord = "Equal" /\ ~find_first -> [left |-> l, right |-> m, boundary |-> m]
      [] ord = "Less"                 -> [left |-> m + 1, right |-> r, boundary |-> b]
      [] ord = "Greater"              -> [left |-> l, right |-> m, boundary |-> b]

\* variant: the last boundary is recorded one past the hit, as an upper bound
BoundaryNarrowUpperBound(ord, find_first, l, r, m, b) ==
    CASE ord = "Equal" /\ find_first  -> [left |-> l, right |-> m, boundary |-> m]
      [] ord = "Equal" /\ ~find_first -> [left |-> m + 1, right |-> r, boundary |-> m + 1]
      [] ord = "Less"                 -> [left |-> m + 1, right |-> r, boundary |-> b]
      [] ord = "Greater"              -> [left |-> l, right |-> m, boundary |-> b]

\* the four arms of find_boundary's match
BoundaryNarrow(ord, find_first, l, r, m, b) ==
    CASE ord = "Equal" /\ find_first  -> [left |-> l, right |-> m, boundary |-> m]
      [] ord = "Equal" /\ ~find_first -> [left |-> m + 1, right |-> r, boundary |-> m]
      [] ord = "Less"                 -> [left |-> m + 1, right |-> r, boundary |-> b]
      [] ord = "Greater"              -> [left |-> l, right |-> m, boundary |-> b]

\* ------------------------------------------------------------------- state
VARIABLES
    input,      \* the Vec handed to SortedArray::new
    item,       \* the item searched for
    arr,        \* arr[O]: <<>> before SortedArray::<_, O>::new, then <<data>>
    results,    \* results[O]: <<>> before a search of arr[O] returned, then <<its result>>
    order,      \* the order marker O of the call in flight
    pc,         \* position of the call in flight
    left, right, result,             \* locals of binary_search
    fb_left, fb_right, boundary,     \* locals left, right, boundary of find_boundary
    first, last,                     \* locals of find_first_and_last
    phase2      \* number of find_first_and_last calls made by the call in flight

vars == <<input, item, arr, results, order, pc, left, right, result,
          fb_left, fb_right, boundary, first, last, phase2>>

probe_locals == <<left, right, result>>

boundary_locals == <<fb_left, fb_right, boundary>>

\* the data of the container being searched
data == arr[order][1]

Init ==
    /\ input \in Inputs
    /\ item \in Queries
    /\ arr = [O \in Orders |-> <<>>]
    /\ results = [O \in Orders |-> <<>>]
    /\ order = "Ascending"
    /\ pc = "ready"
    /\ left = 0 /\ right = 0 /\ result = <<>>
    /\ fb_left = 0 /\ fb_right = 0 /\ boundary = 0
    /\ first = 0 /\ last = 0
    /\ phase2 = 0

\* ----------------------------------------------------------------- actions
\* SortedArray::<T, Ascending>::new(data)
NewAscending ==
    /\ pc = "ready"
    /\ arr["Ascending"] = <<>>
    /\ arr' = [arr EXCEPT !["Ascending"] = <<Sort(input)>>]
    /\ UNCHANGED <<input, item, results, order, pc, probe_locals, boundary_locals,
                   first, last, phase2>>

\* SortedArray::<T, Descending>::new(data)
NewDescending ==
    /\ pc = "ready"
    /\ arr["Descending"] = <<>>
    /\ arr' = [arr EXCEPT !["Descending"] = <<SortRev(input)>>]
    /\ UNCHANGED <<input, item, results, order, pc, probe_locals, boundary_locals,
                   first, last, phase2>>

\* variant: left keeps the value the previous call left in it
BinarySearchStale(O) ==
    /\ pc = "ready"
    /\ arr[O] # <<>>
    /\ order' = O
    /\ right' = Len(arr[O][1])
    /\ result' = <<>>
    /\ phase2' = 0
    /\ pc' = "probe"
    /\ UNCHANGED <<input, item, arr, results, left, boundary_locals, first, last>>

\* entry of binary_search::<T, O>(&item, &arr[O]) up to the loop head
BinarySearch(O) ==
    /\ pc = "ready"
    /\ arr[O] # <<>>
    /\ order' = O
    /\ left' = 0
    /\ right' = Len(arr[O][1])
    /\ result' = <<>>
    /\ phase2' = 0
    /\ pc' = "probe"
    /\ UNCHANGED <<input, item, arr, results, boundary_locals, first, last>>

\* one iteration of the probe loop; its Equal arm calls find_first_and_last,
\* which enters find_boundary(item, arr, true)
ProbeStep ==
    /\ pc = "probe"
    /\ left < right
    /\ LET mid == Mid(left, right) IN
       IF ~InBounds(data, mid)
       THEN /\ pc' = "panic"
            /\ UNCHANGED <<left, right, boundary_locals, phase2>>
       ELSE LET ord == OrdCmp(order, item, At(data, mid)) IN
            IF ord = "Equal"
            THEN /\ pc' = "first"
                 /\ phase2' = phase2 + 1
                 /\ fb_left' = 0
                 /\ fb_right' = Len(data)
                 /\ boundary' = 0
                 /\ UNCHANGED <<left, right>>
            ELSE /\ left' = ProbeNarrow(ord, left, right, mid).left
                 /\ right' = ProbeNarrow(ord, left, right, mid).right
                 /\ pc' = "probe"
                 /\ UNCHANGED <<boundary_locals, phase2>>
    /\ UNCHANGED <<input, item, arr, results, order, result, first, last>>

\* variant: the boundary phase also runs when the probe loop found nothing
ProbeExitRunsBoundary ==
    /\ pc = "probe"
    /\ ~(left < right)
    /\ pc' = "first"
    /\ phase2' = phase2 + 1
    /\ fb_left' = 0
    /\ fb_right' = Len(data)
    /\ boundary' = 0
    /\ UNCHANGED <<input, item, arr, results, order, probe_locals, first, last>>

\* the probe loop's condition is false: binary_search falls through to `result`
ProbeExit ==
    /\ pc = "probe"
    /\ ~(left < right)
    /\ pc' = "return"
    /\ UNCHANGED <<input, item, arr, results, order, probe_locals, boundary_locals,
                   first, last, phase2>>

\* one iteration of find_boundary's loop
BoundaryStep ==
    /\ pc \in {"first", "last"}
    /\ fb_left < fb_right
    /\ LET mid == Mid(fb_left, fb_right) IN
       IF ~InBounds(data, mid)
       THEN /\ pc' = "panic"
            /\ UNCHANGED boundary_locals
       ELSE LET n == BoundaryNarrow(OrdCmp(order, At(data, mid), item),
                                    pc = "first", fb_left, fb_right, mid, boundary) IN
            /\ fb_left' = n.left
            /\ fb_right' = n.right
            /\ boundary' = n.boundary
            /\ pc' = pc
    /\ UNCHANGED <<input, item, arr, results, order, probe_locals, first, last, phase2>>

\* find_boundary(item, arr, true) returns; find_boundary(item, arr, false) starts
FirstBoundaryReturn ==
    /\ pc = "first"
    /\ ~(fb_left < fb_right)
    /\ first' = boundary
    /\ fb_left' = 0
    /\ fb_right' = Len(data)
    /\ boundary' = 0
    /\ pc' = "last"
    /\ UNCHANGED <<input, item, arr, results, order, probe_locals, last, phase2>>

\* variant: no break after find_first_and_last, the probe loop goes on
LastBoundaryReturnNoBreak ==
    /\ pc = "last"
    /\ ~(fb_left < fb_right)
    /\ last' = boundary
    /\ result' = RangeInclusive(first, boundary)
    /\ pc' = "probe"
    /\ UNCHANGED <<input, item, arr, results, order, left, right, boundary_locals,
                   first, phase2>>

\* find_boundary(item, arr, false) returns; find_first_and_last collects the
\* range into result and binary_search breaks out of the probe loop
LastBoundaryReturn ==
    /\ pc = "last"
    /\ ~(fb_left < fb_right)
    /\ last' = boundary
    /\ result' = RangeInclusive(first, boundary)
    /\ pc' = "return"
    /\ UNCHANGED <<input, item, arr, results, order, left, right, boundary_locals,
                   first, phase2>>

\* binary_search returns result to its caller
Return ==
    /\ pc = "return"
    /\ results' = [results EXCEPT ![order] = <<result>>]
    /\ pc' = "ready"
    /\ UNCHANGED <<input, item, arr, order, probe_locals, boundary_locals,
                   first, last, phase2>>

Next ==
    \/ NewAscending
    \/ NewDescending
    \/ \E O \in Orders : BinarySearch(O)
    \/ ProbeStep
    \/ ProbeExit
    \/ BoundaryStep
    \/ FirstBoundaryReturn
    \/ LastBoundaryReturn
    \/ Return

Spec == Init /\ [][Next]_vars

\* a started call keeps running: the program is sequential and nothing blocks it
Running ==
    ProbeStep \/ ProbeExit \/ BoundaryStep \/ FirstBoundaryReturn
        \/ LastBoundaryReturn \/ Return

LiveSpec == Spec /\ WF_vars(Running)

\* ------------------------------------------------- vocabulary of the claims
\* the indices of a at which q occurs
Hits(q, a) == {i \in 0..(Len(a) - 1) : At(a, i) = q}

\* the indices of a at which q occurs, found by scanning a from index 0 up
LinearScan(q, a) == SelectSeq([k \in 1..Len(a) |-> k - 1], LAMBDA i : At(a, i) = q)

IsSortedUnder(O, a) ==
    \A i \in 1..(Len(a) - 1) :
        IF O = "Ascending" THEN a[i] <= a[i + 1] ELSE a[i] >= a[i + 1]

Count(v, a) == Cardinality({i \in 1..Len(a) : a[i] = v})

IsRearrangement(a, b) ==
    /\ Len(a) = Len(b)
    /\ \A v \in Values : Count(v, a) = Count(v, b)

MinOf(S) == CHOOSE x \in S : \A y \in S : x <= y

MaxOf(S) == CHOOSE x \in S : \A y \in S : x >= y

Built(O) == arr[O] # <<>>

Returned(O) == results[O] # <<>>

\* ------------------------------------------------------------------ claims
\* C1: a search of the container built from the input under either order
\* returns exactly the indices of the sorted array that hold the item, as a
\* linear scan of that array yields them: none missing, none extra.
C1_AllOccurrences ==
    /\ pc = "return" =>
          /\ IsSortedUnder(order, data)
          /\ IsRearrangement(data, input)
          /\ result = LinearScan(item, data)
    /\ \A O \in Orders : Returned(O) => results[O][1] = LinearScan(item, arr[O][1])

C1_Witness ==
    /\ pc = "return"
    /\ order = "Descending"
    /\ Len(result) >= 2
    /\ result[1] > 0
    /\ data # input

\* C2: a constructed container holds a rearrangement of the input that is
\* sorted under its order (the empty input included), and no step taken after
\* its construction changes it.
C2_SortedAndFrozen ==
    /\ [](\A O \in Orders :
            Built(O) => IsSortedUnder(O, arr[O][1]) /\ IsRearrangement(arr[O][1], input))
    /\ [][\A O \in Orders : Built(O) => arr'[O] = arr[O]]_vars

C2_Witness ==
    /\ Built("Ascending") /\ Built("Descending")
    /\ Returned("Ascending") /\ Returned("Descending")
    /\ arr["Ascending"][1] # input
    /\ arr["Descending"][1] # input
    /\ arr["Ascending"] # arr["Descending"]

\* C3: the searches of the Ascending and of the Descending container of one
\* input return equally many indices, and the descending result is the
\* ascending run mirrored: index i becomes n - 1 - i.
C3_DirectionSymmetry ==
    (Returned("Ascending") /\ Returned("Descending")) =>
        LET ra == results["Ascending"][1]
            rd == results["Descending"][1]
            n  == Len(input)
        IN  /\ Len(ra) = Len(rd)
            /\ rd = [k \in 1..Len(ra) |-> n - 1 - ra[Len(ra) + 1 - k]]

C3_Witness ==
    /\ Returned("Ascending") /\ Returned("Descending")
    /\ Len(results["Ascending"][1]) >= 2
    /\ results["Ascending"][1] # results["Descending"][1]

\* C4: the returned indices are strictly increasing and each is a valid
\* position of the container.
C4_IncreasingValidIndices ==
    pc = "return" =>
        /\ \A k \in 1..Len(result) : 0 <= result[k] /\ result[k] < Len(data)
        /\ \A k \in 1..(Len(result) - 1) : result[k] < result[k + 1]

C4_Witness ==
    /\ pc = "return"
    /\ Len(result) >= 2
    /\ result[Len(result)] = Len(data) - 1

\* C5: a search never fails, and when no element equals the item (empty
\* container, item below, above or in a gap of the values) it returns the
\* empty sequence.
C5_NotFoundIsEmpty ==
    /\ pc # "panic"
    /\ (pc = "return" /\ Hits(item, data) = {}) => result = <<>>
    /\ \A O \in Orders :
          (Returned(O) /\ Hits(item, arr[O][1]) = {}) => results[O][1] = <<>>

C5_Witness ==
    /\ pc = "return"
    /\ Hits(item, data) = {}
    /\ \E i, j \in 0..(Len(data) - 1) : At(data, i) < item /\ item < At(data, j)

\* C6: a search leaves the containers as they are, and a later search of the
\* same container for the same item returns what the earlier one returned.
C6_RepeatableAndFrameSafe ==
    [][/\ pc # "ready" => arr' = arr
       /\ (pc = "return" /\ Returned(order)) => results'[order] = results[order]]_vars

C6_Witness ==
    /\ pc = "return"
    /\ Returned(order)
    /\ result # <<>>
    /\ Returned("Ascending") /\ Returned("Descending")

\* C7: an iteration that stays in its loop strictly decreases right - left,
\* and each of the three loops is left after finitely many iterations.
C7_Terminates ==
    /\ [][/\ (pc = "probe" /\ pc' = "probe") => right' - left' < right - left
          /\ (pc \in {"first", "last"} /\ pc' = pc) =>
                 fb_right' - fb_left' < fb_right - fb_left]_vars
    /\ (pc = "probe") ~> (pc \in {"first", "return"})
    /\ (pc = "first") ~> (pc = "last")
    /\ (pc = "last") ~> (pc = "return")

C7_Witness ==
    /\ pc = "last"
    /\ 0 < fb_left
    /\ fb_left < fb_right
    /\ 0 < left

\* C8: when the container holds the item, find_boundary with find_first
\* returns the smallest index holding it, without find_first the largest, and
\* the result is every index from the smallest to the largest, increasing.
C8_Boundaries ==
    (phase2 = 1 /\ Hits(item, data) # {}) =>
        /\ pc \in {"last", "return"} => first = MinOf(Hits(item, data))
        /\ pc = "return" =>
              /\ last = MaxOf(Hits(item, data))
              /\ result = [k \in 1..(last - first + 1) |-> first + k - 1]
              /\ first <= last

C8_Witness ==
    /\ pc = "return"
    /\ phase2 = 1
    /\ 0 < first
    /\ first < last
    /\ order = "Descending"

\* C9: the probe loop stops at the first mid holding the item and only then
\* is the boundary phase run, once, with no probe step after it; a probe loop
\* that ends with left = right runs no boundary phase and returns empty.
C9_PhaseOrder ==
    [][/\ (pc = "probe" /\ left < right /\ At(data, Mid(left, right)) = item) =>
              (pc' = "first" /\ phase2' = 1)
       /\ (pc' = "first" /\ pc # "first") =>
              (pc = "probe" /\ left < right /\ At(data, Mid(left, right)) = item
                  /\ phase2 = 0)
       /\ pc \in {"first", "last"} => pc' \in {"first", "last", "return"}
       /\ (pc = "probe" /\ ~(left < right)) =>
              (left = right /\ pc' = "return" /\ result' = <<>> /\ phase2' = 0)
       /\ pc = "return" =>
              (pc' = "ready" /\ phase2 = (IF Hits(item, data) = {} THEN 0 ELSE 1))]_vars

C9_Witness ==
    /\ pc = "return"
    /\ phase2 = 1
    /\ result # <<>>
    /\ 0 < left

\* C10: at every loop head 0 <= left <= right <= len, and when the loop body
\* runs left <= mid < right, so every index used is in bounds and right - left
\* is never negative.
C10_IndexInBounds ==
    /\ pc # "panic"
    /\ pc = "probe" =>
          /\ 0 <= left /\ left <= right /\ right <= Len(data)
          /\ left < right => (left <= Mid(left, right) /\ Mid(left, right) < right)
    /\ pc \in {"first", "last"} =>
          /\ 0 <= fb_left /\ fb_left <= fb_right /\ fb_right <= Len(data)
          /\ fb_left < fb_right =>
                (fb_left <= Mid(fb_left, fb_right) /\ Mid(fb_left, fb_right) < fb_right)

C10_Witness ==
    /\ pc = "last"
    /\ fb_left < fb_right
    /\ Mid(fb_left, fb_right) = Len(data) - 1
    /\ Len(data) >= 3

====
